---------------------------- MODULE Spec2Model ----------------------------
(***************************************************************************)
(* Student Management System (src/app.py): a Flask service over a MongoDB  *)
(* collection with an in-memory fallback list.                             *)
(*                                                                         *)
(* Python strings are modelled as sequences of one-character strings, so   *)
(* that str(), int(), lower(), strip(), `in` and the backend's $regex are  *)
(* computed character by character.  A JSON value is a record              *)
(* [t, n, s]: its type tag, its number (tenths for a float) and its text.  *)
(***************************************************************************)
EXTENDS Integers, Sequences, FiniteSets, TLC

VARIABLES
    MONGO_URI,            \* TRUE iff the environment variable is set (app.py:14)
    DB_CONNECTED,         \* app.py:42
    SAMPLE_STUDENTS,      \* the in-memory list (app.py:45)
    students_collection,  \* the documents of db["students"], in insertion order
    oid_counter,          \* the driver's ObjectId generator
    issued,               \* history: every _id a Create has returned
    n_creates,            \* history: the number of records created
    n_deletes,            \* history: the number of records deleted
    req,                  \* history: the last request
    resp,                 \* history: the response to it
    threads               \* each request thread's position in add_student and its locals

vars == <<MONGO_URI, DB_CONNECTED, SAMPLE_STUDENTS, students_collection,
          oid_counter, issued, n_creates, n_deletes, req, resp, threads>>

---------------------------------------------------------------------------
(* Bounds of the model.                                                    *)

\* Records created in one behaviour.
MaxCreates == 2

\* Records deleted in one behaviour.
MaxDeletes == 1

\* Request threads that run add_student at the same time.
NThreads == 2

---------------------------------------------------------------------------
(* Python's str operations.                                                *)

Digits == <<"0", "1", "2", "3", "4", "5", "6", "7", "8", "9">>

UpperLetters == <<"A", "B", "C", "D", "E", "F", "G", "H", "I", "J", "K", "L", "M",
                  "N", "O", "P", "Q", "R", "S", "T", "U", "V", "W", "X", "Y", "Z">>

LowerLetters == <<"a", "b", "c", "d", "e", "f", "g", "h", "i", "j", "k", "l", "m",
                  "n", "o", "p", "q", "r", "s", "t", "u", "v", "w", "x", "y", "z">>

Whitespace == {" ", "\t", "\n"}

\* the value of each decimal digit
DigitValue == [c \in {Digits[i] : i \in 1..10} |-> (CHOOSE i \in 1..10 : Digits[i] = c) - 1]

IsDigit(c) == c \in DOMAIN DigitValue

DigitVal(c) == DigitValue[c]

\* the lower-case letter of each upper-case letter
LowerOf == [c \in {UpperLetters[i] : i \in 1..26} |->
                LowerLetters[CHOOSE i \in 1..26 : UpperLetters[i] = c]]

lower_char(c) == IF c \in DOMAIN LowerOf THEN LowerOf[c] ELSE c

\* str.lower()
lower(s) == [i \in 1..Len(s) |-> lower_char(s[i])]

RECURSIVE lstrip(_)
lstrip(s) == IF s # << >> /\ Head(s) \in Whitespace THEN lstrip(Tail(s)) ELSE s

RECURSIVE rstrip(_)
rstrip(s) ==
    IF s # << >> /\ s[Len(s)] \in Whitespace
    THEN rstrip(SubSeq(s, 1, Len(s) - 1))
    ELSE s

\* str.strip()
strip(s) == rstrip(lstrip(s))

\* `sub in s` on two str
contains(sub, s) ==
    \E i \in 0..(Len(s) - Len(sub)) : SubSeq(s, i + 1, i + Len(sub)) = sub

\* str(n) of an int
RECURSIVE str_nat(_)
str_nat(n) == IF n < 10 THEN <<Digits[n + 1]>> ELSE str_nat(n \div 10) \o <<Digits[(n % 10) + 1]>>

str_int(n) == IF n < 0 THEN <<"-">> \o str_nat(0 - n) ELSE str_nat(n)

RECURSIVE digits_value(_)
digits_value(s) ==
    IF s = << >> THEN 0
    ELSE 10 * digits_value(SubSeq(s, 1, Len(s) - 1)) + DigitVal(s[Len(s)])

AllDigits(s) == s # << >> /\ \A i \in 1..Len(s) : IsDigit(s[i])

\* int(s) of a str: surrounding whitespace, an optional sign, decimal digits;
\* anything else raises ValueError.
int_of_str(s) ==
    LET t == strip(s)
        signed == t # << >> /\ Head(t) \in {"+", "-"}
        body == IF signed THEN Tail(t) ELSE t
    IN  IF AllDigits(body)
        THEN [exc |-> "none",
              v |-> IF signed /\ Head(t) = "-" THEN 0 - digits_value(body)
                    ELSE digits_value(body)]
        ELSE [exc |-> "ValueError", v |-> 0]

\* int(x) of a float given in tenths: truncation toward zero
trunc_tenths(n) == IF n >= 0 THEN n \div 10 ELSE 0 - ((0 - n) \div 10)

\* int(v) of a JSON value
py_int(v) ==
    CASE v.t = "int" -> [exc |-> "none", v |-> v.n]
      [] v.t = "bool" -> [exc |-> "none", v |-> v.n]
      [] v.t = "float" -> [exc |-> "none", v |-> trunc_tenths(v.n)]
      [] v.t = "inf" -> [exc |-> "OverflowError", v |-> 0]
      [] v.t = "nan" -> [exc |-> "ValueError", v |-> 0]
      [] v.t = "str" -> int_of_str(v.s)
      [] OTHER -> [exc |-> "TypeError", v |-> 0]

---------------------------------------------------------------------------
(* bson.ObjectId and the driver.                                           *)

\* The length of an ObjectId's hexadecimal text.
OidLen == 24

HexChars == {Digits[i] : i \in 1..10} \cup {LowerLetters[i] : i \in 1..6}
                \cup {UpperLetters[i] : i \in 1..6}

\* ObjectId(s) raises InvalidId unless s is 24 hexadecimal characters
ObjectIdValid(s) == Len(s) = OidLen /\ \A i \in 1..Len(s) : s[i] \in HexChars

\* ObjectId(s): the identifier the text denotes, whatever the case of its letters
ObjectId(s) == [oid |-> lower(s)]

\* str(oid) of an ObjectId: lower-case hexadecimal
str_oid(o) == o.oid

\* The k-th identifier the driver generates for an inserted document.
new_oid(k) ==
    LET d == str_nat(k)
    IN  [oid |-> [i \in 1..(OidLen - Len(d)) |-> "a"] \o d]

---------------------------------------------------------------------------
(* The backend's $regex with $options "i", for the patterns of             *)
(* literal characters, "." and a postfix "*"; a "(" left open or a "*"     *)
(* with nothing to repeat makes the backend reject the pattern.            *)

regex_valid(p) ==
    /\ \A i \in 1..Len(p) : p[i] # "(" /\ p[i] # ")"
    /\ \A i \in 1..Len(p) : p[i] = "*" => (i > 1 /\ p[i - 1] # "*")

atom_matches(a, c) == IF a = "." THEN c # "\n" ELSE lower_char(a) = lower_char(c)

RECURSIVE match_here(_, _)
match_here(p, s) ==
    IF p = << >> THEN TRUE
    ELSE IF Len(p) >= 2 /\ p[2] = "*"
    THEN \E k \in 0..Len(s) :
            /\ \A i \in 1..k : atom_matches(p[1], s[i])
            /\ match_here(SubSeq(p, 3, Len(p)), SubSeq(s, k + 1, Len(s)))
    ELSE /\ s # << >>
         /\ atom_matches(p[1], s[1])
         /\ match_here(Tail(p), Tail(s))

\* an unanchored, case-insensitive search of pattern p in s
regex_search(p, s) == \E i \in 0..Len(s) : match_here(p, SubSeq(s, i + 1, Len(s)))

---------------------------------------------------------------------------
(* The record store (app.py:45-149).  Every operation takes the state it   *)
(* reads (the mode, the in-memory list, the collection) and, in connected  *)
(* mode, whether the backend raises during the call.                       *)

\* SAMPLE_STUDENTS as the module defines it
SEED_STUDENTS ==
    << [_id |-> <<"1">>, name |-> <<"J","o","h","n"," ","D","o","e">>, age |-> 20],
       [_id |-> <<"2">>, name |-> <<"J","a","n","e"," ","S","m","i","t","h">>, age |-> 22],
       [_id |-> <<"3">>,
        name |-> <<"A","l","i","c","e"," ","J","o","h","n","s","o","n">>, age |-> 19],
       [_id |-> <<"4">>, name |-> <<"B","o","b"," ","W","i","l","s","o","n">>, age |-> 21] >>

\* max(xs) of a non-empty set of int
Max(S) == CHOOSE m \in S : \A x \in S : x <= m

\* next(... for s in lst if s["_id"] == student_id), None): the first match
first_index(lst, student_id) ==
    IF \E i \in 1..Len(lst) : lst[i]._id = student_id
    THEN CHOOSE i \in 1..Len(lst) :
            lst[i]._id = student_id /\ \A j \in 1..(i - 1) : lst[j]._id # student_id
    ELSE 0

\* list.remove(x): drops the first element equal to x
list_remove(lst, x) ==
    LET k == CHOOSE i \in 1..Len(lst) : lst[i] = x /\ \A j \in 1..(i - 1) : lst[j] # x
    IN  SubSeq(lst, 1, k - 1) \o SubSeq(lst, k + 1, Len(lst))

\* [f(x) for x in lst if P(x)] for the positions of lst the set keep holds
RECURSIVE filter_seq(_, _)
filter_seq(lst, keep) ==
    IF lst = << >> THEN << >>
    ELSE LET rest == filter_seq(SubSeq(lst, 1, Len(lst) - 1), keep)
         IN  IF Len(lst) \in keep THEN Append(rest, lst[Len(lst)]) ELSE rest

\* {"_id": str(student["_id"]), "name": student["name"], "age": student["age"]}
project(doc) == [_id |-> str_oid(doc._id), name |-> doc.name, age |-> doc.age]

\* the next id taken from the length of the list
get_next_sample_id_by_len(samples) == str_int(Len(samples) + 1)

get_next_sample_id(samples) ==
    IF samples = << >> THEN <<"1">>
    ELSE str_int(Max({int_of_str(samples[i]._id).v : i \in 1..Len(samples)}) + 1)

\* add_student(data): the student returned and the store after it, or the
\* exception of the backend re-raised.
add_student(data, connected, samples, coll, oidc, fail) ==
    LET student == [name |-> data.name.s, age |-> data.age.n, created_at |-> "datetime"]
    IN  IF connected
        THEN IF fail
             THEN [raised |-> TRUE, student |-> student,
                   samples |-> samples, coll |-> coll, oidc |-> oidc]
             ELSE [raised |-> FALSE,
                   student |-> [_id |-> str_oid(new_oid(oidc)), name |-> student.name,
                                age |-> student.age, created_at |-> "datetime"],
                   samples |-> samples,
                   coll |-> Append(coll, [_id |-> new_oid(oidc), name |-> student.name,
                                          age |-> student.age, created_at |-> "datetime"]),
                   oidc |-> oidc + 1]
        ELSE LET made == [_id |-> get_next_sample_id(samples), name |-> student.name,
                          age |-> student.age, created_at |-> "isoformat"]
             IN  [raised |-> FALSE, student |-> made,
                  samples |-> Append(samples, made), coll |-> coll, oidc |-> oidc]

get_students(connected, samples, coll, fail) ==
    IF connected
    THEN IF fail THEN samples
         ELSE [i \in 1..Len(coll) |-> project(coll[i])]
    ELSE samples

no_student == [_id |-> << >>]

\* a scan that compares the ids as numbers
scan_samples_numeric(samples, student_id) ==
    LET hit(i) == \/ samples[i]._id = student_id
                  \/ /\ int_of_str(student_id).exc = "none"
                     /\ int_of_str(samples[i]._id) = int_of_str(student_id)
    IN  IF \E i \in 1..Len(samples) : hit(i)
        THEN [found |-> TRUE, student |-> samples[CHOOSE i \in 1..Len(samples) : hit(i)]]
        ELSE [found |-> FALSE, student |-> [_id |-> << >>]]

\* the first element with this _id, or None
scan_samples(samples, student_id) ==
    LET k == first_index(samples, student_id)
    IN  IF k = 0 THEN [found |-> FALSE, student |-> no_student]
        ELSE [found |-> TRUE, student |-> samples[k]]

get_student_by_id(student_id, connected, samples, coll, fail) ==
    IF connected
    THEN IF ~ObjectIdValid(student_id) \/ fail
         THEN scan_samples(samples, student_id)
         ELSE LET k == first_index(coll, ObjectId(student_id))
              IN  IF k = 0 THEN [found |-> FALSE, student |-> no_student]
                  ELSE [found |-> TRUE,
                        student |-> [coll[k] EXCEPT !._id = str_oid(coll[k]._id)]]
    ELSE scan_samples(samples, student_id)

deleted_ok == [key |-> "message", text |-> "Student deleted successfully"]

\* a delete that reports the record deleted and leaves it stored
delete_student_from_copy(student_id, connected, samples, coll, fail) ==
    IF connected
    THEN IF ~ObjectIdValid(student_id) \/ fail
         THEN [result |-> [key |-> "error", text |-> "Failed to delete student"],
               samples |-> samples, coll |-> coll]
         ELSE IF first_index(coll, ObjectId(student_id)) > 0
              THEN [result |-> deleted_ok, samples |-> samples, coll |-> coll]
              ELSE [result |-> [key |-> "error", text |-> "Student not found"],
                    samples |-> samples, coll |-> coll]
    ELSE IF first_index(samples, student_id) > 0
         THEN [result |-> deleted_ok, samples |-> samples, coll |-> coll]
         ELSE [result |-> [key |-> "error", text |-> "Student not found"],
               samples |-> samples, coll |-> coll]

delete_student(student_id, connected, samples, coll, fail) ==
    IF connected
    THEN IF ~ObjectIdValid(student_id) \/ fail
         THEN [result |-> [key |-> "error", text |-> "Failed to delete student"],
               samples |-> samples, coll |-> coll]
         ELSE LET k == first_index(coll, ObjectId(student_id))
              IN  IF k > 0
                  THEN [result |-> deleted_ok, samples |-> samples,
                        coll |-> SubSeq(coll, 1, k - 1) \o SubSeq(coll, k + 1, Len(coll))]
                  ELSE [result |-> [key |-> "error", text |-> "Student not found"],
                        samples |-> samples, coll |-> coll]
    ELSE LET k == first_index(samples, student_id)
         IN  IF k > 0
             THEN [result |-> deleted_ok,
                   samples |-> list_remove(samples, samples[k]), coll |-> coll]
             ELSE [result |-> [key |-> "error", text |-> "Student not found"],
                   samples |-> samples, coll |-> coll]

\* a search that folds the case of the stored name only
search_samples_unfolded_query(samples, name) ==
    filter_seq(samples, {i \in 1..Len(samples) : contains(name, lower(samples[i].name))})

\* [s for s in SAMPLE_STUDENTS if name.lower() in s["name"].lower()]
search_samples(samples, name) ==
    filter_seq(samples, {i \in 1..Len(samples) : contains(lower(name), lower(samples[i].name))})

\* find({"name": {"$regex": f".*{name}.*", "$options": "i"}}), projected
search_collection(coll, name) ==
    LET pattern == <<".", "*">> \o name \o <<".", "*">>
        hits == filter_seq(coll, {i \in 1..Len(coll) : regex_search(pattern, coll[i].name)})
    IN  [i \in 1..Len(hits) |-> project(hits[i])]

search_students_by_name(name, connected, samples, coll, fail) ==
    IF connected
    THEN IF fail \/ ~regex_valid(<<".", "*">> \o name \o <<".", "*">>)
         THEN search_samples(samples, name)
         ELSE search_collection(coll, name)
    ELSE search_samples(samples, name)

---------------------------------------------------------------------------
(* The request handlers (app.py:179-281).  A response is                   *)
(* [status, kind, records, text, count]: the status code, what the JSON    *)
(* body is, the records it carries, its message and its total_students.    *)

Response(status, kind, records, text) ==
    [status |-> status, kind |-> kind, records |-> records, text |-> text, count |-> 0]

ErrorResponse(status, text) == Response(status, "error", << >>, text)

\* health_check whose except branch answers 500
health_check_failing(connected, samples, coll, ping_fail, find_fail) ==
    IF connected /\ ping_fail
    THEN [status |-> 500, kind |-> "health", records |-> << >>,
          text |-> "fallback_mode", count |-> 0]
    ELSE [status |-> 200, kind |-> "health", records |-> << >>,
          text |-> IF connected THEN "connected_via_secrets" ELSE "fallback_mode_no_secret",
          count |-> Len(get_students(connected, samples, coll, find_fail))]

\* GET /health
health_check(connected, samples, coll, ping_fail, find_fail) ==
    IF connected /\ ping_fail
    THEN [status |-> 200, kind |-> "health", records |-> << >>,
          text |-> "fallback_mode", count |-> 0]
    ELSE [status |-> 200, kind |-> "health", records |-> << >>,
          text |-> IF connected THEN "connected_via_secrets" ELSE "fallback_mode_no_secret",
          count |-> Len(get_students(connected, samples, coll, find_fail))]

\* the store as a handler leaves it when it stores nothing
Unchanged(r, samples, coll, oidc) ==
    [resp |-> r, samples |-> samples, coll |-> coll, oidc |-> oidc, created |-> FALSE]

\* POST /students.  body.parse = "unparseable" is a body get_json() raises on.
add(body, connected, samples, coll, oidc, fail) ==
    IF body.parse # "ok"
    THEN Unchanged(ErrorResponse(500, "Failed to add student"), samples, coll, oidc)
    ELSE IF ~body.has_name /\ ~body.has_age
    THEN Unchanged(ErrorResponse(400, "No JSON data provided"), samples, coll, oidc)
    ELSE IF ~body.has_name \/ ~body.has_age
    THEN Unchanged(ErrorResponse(400, "Missing required fields: 'name' and 'age'"),
                   samples, coll, oidc)
    ELSE LET age == py_int(body.age)
         IN  IF age.exc \in {"ValueError", "TypeError"}
             THEN Unchanged(ErrorResponse(400, "Age must be a valid number"),
                            samples, coll, oidc)
             ELSE IF age.exc # "none"
             THEN Unchanged(ErrorResponse(500, "Failed to add student"), samples, coll, oidc)
             ELSE IF age.v < 0 \/ age.v > 150
             THEN Unchanged(ErrorResponse(400, "Age must be between 0 and 150"),
                            samples, coll, oidc)
             ELSE IF body.name.t # "str"
             THEN Unchanged(ErrorResponse(500, "Failed to add student"), samples, coll, oidc)
             ELSE IF strip(body.name.s) = << >>
             THEN Unchanged(ErrorResponse(400, "Name cannot be empty"), samples, coll, oidc)
             ELSE LET data == [name |-> body.name,
                               age |-> [t |-> "int", n |-> age.v, s |-> << >>]]
                      r == add_student(data, connected, samples, coll, oidc, fail)
                  IN  IF r.raised
                      THEN Unchanged(ErrorResponse(500, "Failed to add student"),
                                     samples, coll, oidc)
                      ELSE [resp |-> Response(201, "record", <<r.student>>, ""),
                            samples |-> r.samples, coll |-> r.coll, oidc |-> r.oidc,
                            created |-> TRUE]

\* GET /students
get_all(connected, samples, coll, fail) ==
    Response(200, "list", get_students(connected, samples, coll, fail), "")

\* GET /students/<student_id>
get_by_id(student_id, connected, samples, coll, fail) ==
    LET r == get_student_by_id(student_id, connected, samples, coll, fail)
    IN  IF r.found THEN Response(200, "record", <<r.student>>, "")
        ELSE ErrorResponse(404, "Student not found")

\* DELETE /students/<student_id>
delete(student_id, connected, samples, coll, fail) ==
    LET r == delete_student(student_id, connected, samples, coll, fail)
    IN  [resp |-> IF r.result.key = "error" THEN ErrorResponse(404, r.result.text)
                  ELSE Response(200, "message", << >>, r.result.text),
         samples |-> r.samples, coll |-> r.coll]

\* GET /students/name/<name>
get_by_name(name, connected, samples, coll, fail) ==
    LET students_list == search_students_by_name(name, connected, samples, coll, fail)
    IN  IF students_list # << >> THEN Response(200, "list", students_list, "")
        ELSE ErrorResponse(404, "No students found with the given name")

---------------------------------------------------------------------------
(* The requests the environment sends.                                     *)

JInt(n) == [t |-> "int", n |-> n, s |-> << >>]
JFloat(tenths) == [t |-> "float", n |-> tenths, s |-> << >>]
JStr(text) == [t |-> "str", n |-> 0, s |-> text]
JOther(tag) == [t |-> tag, n |-> 0, s |-> << >>]

Body(name, age) ==
    [parse |-> "ok", has_name |-> TRUE, has_age |-> TRUE, name |-> name, age |-> age]

NoBody ==
    [parse |-> "ok", has_name |-> FALSE, has_age |-> FALSE,
     name |-> JOther("null"), age |-> JOther("null")]

NameAl == JStr(<<"A", "l">>)
NamePadded == JStr(<<" ", "a", "l", " ">>)

\* bodies add() accepts
ValidBodies ==
    { Body(NameAl, JInt(150)),
      Body(NameAl, JFloat(1509)),
      Body(NamePadded, JInt(0)),
      Body(NamePadded, JStr(<<" ", "0">>)) }

\* bodies add() rejects
InvalidBodies ==
    { Body(NameAl, JInt(151)),
      Body(NameAl, JInt(-5)),
      Body(NameAl, JStr(<<"i", "n", "v", "a", "l", "i", "d">>)),
      Body(NameAl, JOther("null")),
      Body(NameAl, JOther("nan")),
      Body(NameAl, JOther("inf")),
      Body(JStr(<< >>), JInt(25)),
      Body(JStr(<<" ", "\t">>), JInt(25)),
      Body(JOther("null"), JInt(25)),
      [NoBody EXCEPT !.has_age = TRUE, !.age = JInt(25)],
      [NoBody EXCEPT !.has_name = TRUE, !.name = NameAl],
      NoBody,
      [NoBody EXCEPT !.parse = "unparseable"] }

Bodies == ValidBodies \cup InvalidBodies

UpperOf == [c \in {LowerLetters[i] : i \in 1..26} |->
                UpperLetters[CHOOSE i \in 1..26 : LowerLetters[i] = c]]

upper_char(c) == IF c \in DOMAIN UpperOf THEN UpperOf[c] ELSE c

upper(s) == [i \in 1..Len(s) |-> upper_char(s[i])]

\* the ids a GET or DELETE names: those of the stored records (for a document,
\* in either case of the hexadecimal letters), and ids of no record
StoredIds(samples, coll) ==
    {samples[i]._id : i \in 1..Len(samples)}
        \cup {str_oid(coll[i]._id) : i \in 1..Len(coll)}
        \cup {upper(str_oid(coll[i]._id)) : i \in 1..Len(coll)}

AbsentIds == { <<"0", "1">>, <<"9", "9", "9", "9", "9", "9">>, str_oid(new_oid(9)) }

\* the ids of the records the process starts with or has created since
KnownIds(connected, created) ==
    {SEED_STUDENTS[i]._id : i \in 1..Len(SEED_STUDENTS)} \cup created
        \cup (IF connected THEN {str_oid(new_oid(0))} ELSE {})

Queries ==
    { <<"A", "L">>, <<"c", "e", " ", "J", "o">>, <<"J", ".", "h", "n">>,
      <<"l", "*">>, <<"(", "a", "l">>, <<"z", "z">> }

\* a document the collection may hold when the process starts
PreexistingDoc == [_id |-> new_oid(0), name |-> <<"A", "l", "a", "n">>, age |-> 30]

Request(op, id, name, body, fail) ==
    [op |-> op, id |-> id, name |-> name, body |-> body, fail |-> fail]

\* whether the backend raises during a call: only a connected process calls it
Failures == IF DB_CONNECTED THEN BOOLEAN ELSE {FALSE}

\* the ids the environment asks for
RequestIds ==
    StoredIds(SAMPLE_STUDENTS, students_collection) \cup AbsentIds
        \cup KnownIds(DB_CONNECTED, issued)

---------------------------------------------------------------------------
(* The state machine.                                                      *)

\* a thread that has not yet entered add()
IdleThread == [pc |-> "idle", body |-> NoBody, student |-> [_id |-> << >>]]

IdleThreads == [t \in 1..NThreads |-> IdleThread]

\* connect_to_mongodb(): connected iff the URI is set and the ping succeeds
connect_to_mongodb(uri_set, ping_ok) == uri_set /\ ping_ok

Init ==
    /\ MONGO_URI \in BOOLEAN
    /\ \E ping_ok \in BOOLEAN : DB_CONNECTED = connect_to_mongodb(MONGO_URI, ping_ok)
    /\ SAMPLE_STUDENTS = SEED_STUDENTS
    /\ students_collection \in IF DB_CONNECTED THEN {<< >>, <<PreexistingDoc>>} ELSE {<< >>}
    /\ oid_counter = 1
    /\ issued = {}
    /\ n_creates = 0
    /\ n_deletes = 0
    /\ req = Request("start", << >>, << >>, NoBody, FALSE)
    /\ resp = Response(0, "none", << >>, "")
    /\ threads = IdleThreads

Add ==
    \E body \in Bodies, fail \in Failures :
        LET r == add(body, DB_CONNECTED, SAMPLE_STUDENTS, students_collection,
                     oid_counter, fail)
        IN  /\ n_creates < MaxCreates
            /\ req' = Request("add", << >>, << >>, body, fail)
            /\ resp' = r.resp
            /\ SAMPLE_STUDENTS' = r.samples
            /\ students_collection' = r.coll
            /\ oid_counter' = r.oidc
            /\ issued' = IF r.created THEN issued \cup {r.resp.records[1]._id} ELSE issued
            /\ n_creates' = IF r.created THEN n_creates + 1 ELSE n_creates
            /\ UNCHANGED <<threads, MONGO_URI, DB_CONNECTED, n_deletes>>

GetAll ==
    \E fail \in Failures :
        /\ req' = Request("get_all", << >>, << >>, NoBody, fail)
        /\ resp' = get_all(DB_CONNECTED, SAMPLE_STUDENTS, students_collection, fail)
        /\ UNCHANGED <<threads, MONGO_URI, DB_CONNECTED, SAMPLE_STUDENTS, students_collection,
                       oid_counter, issued, n_creates, n_deletes>>

GetById ==
    \E id \in RequestIds,
       fail \in Failures :
        /\ req' = Request("get_by_id", id, << >>, NoBody, fail)
        /\ resp' = get_by_id(id, DB_CONNECTED, SAMPLE_STUDENTS, students_collection, fail)
        /\ UNCHANGED <<threads, MONGO_URI, DB_CONNECTED, SAMPLE_STUDENTS, students_collection,
                       oid_counter, issued, n_creates, n_deletes>>

Delete ==
    \E id \in RequestIds,
       fail \in Failures :
        LET r == delete(id, DB_CONNECTED, SAMPLE_STUDENTS, students_collection, fail)
        IN  /\ r.resp.status = 200 => n_deletes < MaxDeletes
            /\ n_deletes' = IF r.resp.status = 200 THEN n_deletes + 1 ELSE n_deletes
            /\ req' = Request("delete", id, << >>, NoBody, fail)
            /\ resp' = r.resp
            /\ SAMPLE_STUDENTS' = r.samples
            /\ students_collection' = r.coll
            /\ UNCHANGED <<threads, MONGO_URI, DB_CONNECTED, oid_counter, issued, n_creates>>

GetByName ==
    \E name \in Queries, fail \in Failures :
        /\ req' = Request("get_by_name", << >>, name, NoBody, fail)
        /\ resp' = get_by_name(name, DB_CONNECTED, SAMPLE_STUDENTS, students_collection, fail)
        /\ UNCHANGED <<threads, MONGO_URI, DB_CONNECTED, SAMPLE_STUDENTS, students_collection,
                       oid_counter, issued, n_creates, n_deletes>>

\* req.fail is the ping raising, req.body.parse = "find_fails" the find raising
HealthCheck ==
    \E ping_fail \in Failures, find_fail \in Failures :
        /\ req' = Request("health", << >>, << >>,
                          [NoBody EXCEPT !.parse = IF find_fail THEN "find_fails" ELSE "ok"],
                          ping_fail)
        /\ resp' = health_check(DB_CONNECTED, SAMPLE_STUDENTS, students_collection,
                                ping_fail, find_fail)
        /\ UNCHANGED <<threads, MONGO_URI, DB_CONNECTED, SAMPLE_STUDENTS, students_collection,
                       oid_counter, issued, n_creates, n_deletes>>

Next == Add \/ GetAll \/ GetById \/ Delete \/ GetByName \/ HealthCheck

Spec == Init /\ [][Next]_vars


---------------------------------------------------------------------------
(* POST /students served by threads (app.run serves each request in its    *)
(* own thread): in fallback mode the statements of add_student run one at  *)
(* a time, and another thread may run between any two of them.             *)

ThreadsInit ==
    /\ MONGO_URI \in BOOLEAN
    /\ DB_CONNECTED = FALSE
    /\ SAMPLE_STUDENTS = SEED_STUDENTS
    /\ students_collection = << >>
    /\ oid_counter = 1
    /\ issued = {}
    /\ n_creates = 0
    /\ n_deletes = 0
    /\ req = Request("start", << >>, << >>, NoBody, FALSE)
    /\ resp = Response(0, "none", << >>, "")
    /\ threads = IdleThreads

\* add() validates the body and add_student builds the student (app.py:211-229, 62-66)
ThreadBuild(t) ==
    \E body \in ValidBodies :
        /\ threads[t].pc = "idle"
        /\ threads' = [threads EXCEPT ![t] =
                [pc |-> "built", body |-> body,
                 student |-> [name |-> body.name.s, age |-> py_int(body.age).v,
                              created_at |-> "datetime"]]]
        /\ UNCHANGED <<MONGO_URI, DB_CONNECTED, SAMPLE_STUDENTS, students_collection,
                       oid_counter, issued, n_creates, n_deletes, req, resp>>

\* student["_id"] = get_next_sample_id() (app.py:75)
ThreadNextId(t) ==
    /\ threads[t].pc = "built"
    /\ threads' = [threads EXCEPT ![t] =
            [pc |-> "has_id", body |-> threads[t].body,
             student |-> [_id |-> get_next_sample_id(SAMPLE_STUDENTS),
                          name |-> threads[t].student.name,
                          age |-> threads[t].student.age,
                          created_at |-> "datetime"]]]
    /\ UNCHANGED <<MONGO_URI, DB_CONNECTED, SAMPLE_STUDENTS, students_collection,
                   oid_counter, issued, n_creates, n_deletes, req, resp>>

\* the isoformat of created_at and SAMPLE_STUDENTS.append(student.copy()) (app.py:76-77)
ThreadAppend(t) ==
    LET made == [threads[t].student EXCEPT !.created_at = "isoformat"]
    IN  /\ threads[t].pc = "has_id"
        /\ SAMPLE_STUDENTS' = Append(SAMPLE_STUDENTS, made)
        /\ threads' = [threads EXCEPT ![t].pc = "appended", ![t].student = made]
        /\ n_creates' = n_creates + 1
        /\ UNCHANGED <<MONGO_URI, DB_CONNECTED, students_collection, oid_counter,
                       issued, n_deletes, req, resp>>

\* return student, and add() answers 201 with it (app.py:80, 232)
ThreadReturn(t) ==
    /\ threads[t].pc = "appended"
    /\ threads' = [threads EXCEPT ![t].pc = "done"]
    /\ req' = Request("add", << >>, << >>, threads[t].body, FALSE)
    /\ resp' = Response(201, "record", <<threads[t].student>>, "")
    /\ issued' = issued \cup {threads[t].student._id}
    /\ UNCHANGED <<MONGO_URI, DB_CONNECTED, SAMPLE_STUDENTS, students_collection,
                   oid_counter, n_creates, n_deletes>>

ThreadsNext ==
    \E t \in 1..NThreads :
        ThreadBuild(t) \/ ThreadNextId(t) \/ ThreadAppend(t) \/ ThreadReturn(t)

SpecThreads == ThreadsInit /\ [][ThreadsNext]_vars

---------------------------------------------------------------------------
(* What the claims speak of, stated without the operators of the code.     *)

Fallback == ~DB_CONNECTED

SampleIds(samples) == {samples[i]._id : i \in 1..Len(samples)}

\* a body the specification calls valid: an integer age in [0,150] and a
\* name that is not empty once trimmed
ClaimValidBody(b) ==
    /\ b.parse = "ok" /\ b.has_name /\ b.has_age
    /\ b.age.t = "int" /\ b.age.n >= 0 /\ b.age.n <= 150
    /\ b.name.t = "str"
    /\ \E i \in 1..Len(b.name.s) : b.name.s[i] \notin Whitespace

\* the records of the active backend, as ListAll shows them
ActiveIds ==
    IF DB_CONNECTED
    THEN {str_oid(students_collection[i]._id) : i \in 1..Len(students_collection)}
    ELSE SampleIds(SAMPLE_STUDENTS)

\* two texts name the same record: the same text, or (for the backend's
\* identifiers) the same 24 hexadecimal digits in whatever case
SameId(a, b) ==
    \/ a = b
    \/ /\ DB_CONNECTED /\ Len(a) = OidLen /\ Len(b) = OidLen
       /\ \A i \in 1..OidLen :
            /\ a[i] \in HexChars /\ b[i] \in HexChars
            /\ \/ a[i] = b[i]
               \/ \E k \in 1..6 : {a[i], b[i]} = {UpperLetters[k], LowerLetters[k]}

Present(id) == \E x \in ActiveIds : SameId(id, x)

\* C1: in fallback mode a valid Create answers 201 with a non-empty _id and the
\* name and age sent; GET of that _id then answers 200 with them, DELETE of it
\* answers 200, and GET of it after the DELETE answers 404.
C1_CreateGetDeleteGet ==
    (req.op = "add" /\ Fallback /\ ClaimValidBody(req.body)) =>
        /\ resp.status = 201
        /\ resp.kind = "record"
        /\ LET made == resp.records[1]
               got == get_by_id(made._id, DB_CONNECTED, SAMPLE_STUDENTS,
                                students_collection, FALSE)
               del == delete(made._id, DB_CONNECTED, SAMPLE_STUDENTS,
                             students_collection, FALSE)
               gone == get_by_id(made._id, DB_CONNECTED, del.samples, del.coll, FALSE)
           IN  /\ made._id # << >>
               /\ made.name = req.body.name.s
               /\ made.age = req.body.age.n
               /\ got.status = 200
               /\ got.records[1].name = req.body.name.s
               /\ got.records[1].age = req.body.age.n
               /\ del.resp.status = 200
               /\ gone.status = 404

\* a record was created after another was deleted, then deleted, and the GET
\* of its _id answered 404
C1_Witness ==
    /\ Fallback
    /\ req.op = "get_by_id" /\ resp.status = 404
    /\ req.id \in issued
    /\ n_creates = MaxCreates /\ n_deletes >= 1

\* C2: in fallback mode the _id values of the in-memory list are pairwise
\* distinct, and the _id a Create returns is the _id of no record stored at
\* the moment of that Create.
C2_SampleIdsUnique ==
    Fallback =>
        /\ \A i, j \in 1..Len(SAMPLE_STUDENTS) :
                SAMPLE_STUDENTS[i]._id = SAMPLE_STUDENTS[j]._id => i = j
        /\ \A b \in ValidBodies :
                add(b, DB_CONNECTED, SAMPLE_STUDENTS, students_collection,
                    oid_counter, FALSE).resp.records[1]._id
                    \notin SampleIds(SAMPLE_STUDENTS)

\* two records were created, the second after a record was deleted
C2_Witness ==
    /\ Fallback
    /\ req.op = "add" /\ resp.status = 201
    /\ n_creates = MaxCreates /\ n_deletes >= 1
    /\ Len(SAMPLE_STUDENTS) > Len(SEED_STUDENTS)

\* what the specification calls an age that is not coercible to an integer
ClaimAgeNotCoercible(a) ==
    \/ a.t \in {"null", "nan", "inf"}
    \/ a.t = "str" /\ \E i \in 1..Len(a.s) : a.s[i] \notin Whitespace /\ ~IsDigit(a.s[i])

ClaimAgeOutOfRange(a) == a.t = "int" /\ (a.n < 0 \/ a.n > 150)

ClaimNameEmpty(n) == n.t = "str" /\ \A i \in 1..Len(n.s) : n.s[i] \in Whitespace

\* a body the specification says is answered 400
ClaimInvalidBody(b) ==
    /\ b.parse = "ok"
    /\ \/ ~b.has_name
       \/ ~b.has_age
       \/ ClaimAgeNotCoercible(b.age)
       \/ ClaimAgeOutOfRange(b.age)
       \/ ClaimNameEmpty(b.name)

\* C3: POST /students answers 400 whenever name or age is missing, age is not
\* coercible to an integer or outside [0,150], or name is empty or only
\* whitespace, and the record set is then as it was before the request.
C3_InvalidCreateIs400 ==
    [][(req'.op = "add" /\ ClaimInvalidBody(req'.body)) =>
            /\ resp'.status = 400
            /\ SAMPLE_STUDENTS' = SAMPLE_STUDENTS
            /\ students_collection' = students_collection]_vars

\* C4: DELETE of an id the store holds answers 200, the same DELETE again
\* answers 404 and leaves the record set as the first left it; DELETE of an id
\* the store does not hold answers 404.  (The backend raising is C9's case.)
C4_DeleteTwice ==
    \A id \in RequestIds :
        LET first == delete(id, DB_CONNECTED, SAMPLE_STUDENTS, students_collection, FALSE)
            second == delete(id, DB_CONNECTED, first.samples, first.coll, FALSE)
        IN  IF Present(id)
            THEN /\ first.resp.status = 200
                 /\ second.resp.status = 404
                 /\ second.samples = first.samples
                 /\ second.coll = first.coll
            ELSE /\ first.resp.status = 404
                 /\ first.samples = SAMPLE_STUDENTS
                 /\ first.coll = students_collection

\* a stored record was deleted and the DELETE of its id, sent again, answered 404
C4_Witness ==
    /\ req.op = "delete" /\ resp.status = 404 /\ ~req.fail
    /\ req.id \in KnownIds(DB_CONNECTED, issued)
    /\ ~Present(req.id)
    /\ n_deletes = 1

\* the letters a and b are the same but for their case
SameLetter(a, b) ==
    a = b \/ \E k \in 1..26 : {a, b} = {UpperLetters[k], LowerLetters[k]}

\* query is a substring of text, the case of the letters aside
ClaimNameMatches(query, text) ==
    \E k \in 0..(Len(text) - Len(query)) :
        \A j \in 1..Len(query) : SameLetter(query[j], text[k + j])

\* C5: in fallback mode GET /students/name/{query} answers 200 with exactly the
\* stored records whose name contains the query, case-insensitively, when there
\* are any, and 404 with an error body when there are none.
C5_FallbackSearch ==
    (req.op = "get_by_name" /\ Fallback) =>
        LET hits == {i \in 1..Len(SAMPLE_STUDENTS) :
                        ClaimNameMatches(req.name, SAMPLE_STUDENTS[i].name)}
        IN  IF hits # {}
            THEN /\ resp.status = 200
                 /\ resp.kind = "list"
                 /\ Len(resp.records) = Cardinality(hits)
                 /\ {resp.records[i] : i \in 1..Len(resp.records)}
                        = {SAMPLE_STUDENTS[i] : i \in hits}
            ELSE /\ resp.status = 404
                 /\ resp.kind = "error"
                 /\ resp.records = << >>

\* a query in upper case found a created record and a seeded one
C5_Witness ==
    /\ Fallback /\ req.op = "get_by_name" /\ resp.status = 200
    /\ req.name = <<"A", "L">>
    /\ \E i \in 1..Len(resp.records) : resp.records[i]._id \in issued
    /\ \E i \in 1..Len(resp.records) : resp.records[i]._id = <<"3">>

\* C6: GET /health answers 200 in every state and both modes, also when the
\* backend's ping raises; the degradation shows in the body alone.
C6_HealthAlways200 ==
    req.op = "health" =>
        /\ resp.status = 200
        /\ (req.fail => resp.text = "fallback_mode")

\* connected, the ping raised and the answer was 200
C6_Witness ==
    /\ DB_CONNECTED /\ req.op = "health" /\ req.fail
    /\ resp.status = 200 /\ resp.text = "fallback_mode"

\* C7: every record ListAll, GetById and SearchByName return carries the _id,
\* the name and the age and nothing else.
C7_ReadsAreProjected ==
    (req.op \in {"get_all", "get_by_id", "get_by_name"} /\ resp.status = 200) =>
        \A i \in 1..Len(resp.records) : DOMAIN resp.records[i] = {"_id", "name", "age"}

\* C8: GET /students/{id} for an id no Create has returned answers 404.
C8_UnissuedIdIs404 ==
    (req.op = "get_by_id" /\ req.id \notin issued) => resp.status = 404

\* C8 as amended: GET /students/{id} answers 404 for an id that names neither
\* a record the process started with nor one a Create has returned.
C8_UnknownIdIs404 ==
    (req.op = "get_by_id" /\ \A x \in KnownIds(DB_CONNECTED, issued) : ~SameId(req.id, x))
        => resp.status = 404

\* after a Create, the GET of an id of no record answered 404
C8_Witness ==
    /\ req.op = "get_by_id" /\ resp.status = 404
    /\ req.id \in AbsentIds
    /\ issued # {}

\* C9: connected, a backend exception during the insert of Create or the
\* delete of DeleteById is answered 500 with an error message.
C9_WriteFailureIs500 ==
    (/\ DB_CONNECTED /\ req.fail
     /\ \/ req.op = "add" /\ ClaimValidBody(req.body)
        \/ /\ req.op = "delete"
           /\ Len(req.id) = OidLen /\ \A i \in 1..Len(req.id) : req.id[i] \in HexChars)
        => resp.status = 500 /\ resp.kind = "error"

\* C10: connected mode's search returns the records fallback mode's
\* case-folded substring test selects from the same stored names.
C10_SearchModesAgree ==
    (req.op = "get_by_name" /\ DB_CONNECTED /\ ~req.fail) =>
        {resp.records[i]._id : i \in 1..Len(resp.records)}
            = {str_oid(students_collection[i]._id) :
                    i \in {k \in 1..Len(students_collection) :
                            ClaimNameMatches(req.name, students_collection[k].name)}}

\* a text that is not the 24 hexadecimal digits of a backend identifier
ClaimMalformedId(id) ==
    Len(id) # OidLen \/ \E i \in 1..Len(id) : id[i] \notin HexChars

\* C11: connected, GET /students/{id} answers 404 for every id that does not
\* parse into the backend's identifier format.
C11_MalformedIdIs404 ==
    (DB_CONNECTED /\ req.op = "get_by_id" /\ ClaimMalformedId(req.id))
        => resp.status = 404

\* the ids a record of the in-memory list holds or has held
HeldIds == KnownIds(FALSE, issued)

\* C13: in fallback mode a Create never assigns an id that an earlier record,
\* stored or since deleted, held; so an id whose record was deleted is not
\* found by GetById in any later state.
C13_IdsNeverReused ==
    [][Fallback =>
        /\ (req'.op = "add" /\ resp'.status = 201)
                => resp'.records[1]._id \notin HeldIds
        /\ \A id \in HeldIds \ SampleIds(SAMPLE_STUDENTS) :
                get_by_id(id, DB_CONNECTED, SAMPLE_STUDENTS', students_collection',
                          FALSE).status = 404]_vars

\* C12: in fallback mode, with Create requests running as threads whose
\* statements interleave, the records of the in-memory list keep pairwise
\* distinct _id values and every Create returns a different _id.
C12_ThreadedCreatesDistinct ==
    /\ \A i, j \in 1..Len(SAMPLE_STUDENTS) :
            SAMPLE_STUDENTS[i]._id = SAMPLE_STUDENTS[j]._id => i = j
    /\ \A t, u \in 1..NThreads :
            (threads[t].pc = "done" /\ threads[u].pc = "done" /\ t # u)
                => threads[t].student._id # threads[u].student._id

=============================================================================
